---- MODULE Spec2Model ----
(***************************************************************************)
(* A model of gitcat.py: the catalogue file (gitcatrc), its reader and     *)
(* writer, the catalogue commands add, remove and move, and the push loop. *)
(*                                                                         *)
(* Text is modelled as it is processed: a string is a sequence of          *)
(* one-character strings, a file is a sequence of lines (without the       *)
(* newline).  Three fixed words of the file are single symbols: "#" is a   *)
(* comment line of the header, "Catalogue:" the line that starts the       *)
(* catalogue and "prefix" the name of the prefix setting.                  *)
(***************************************************************************)
EXTENDS Integers, Sequences, FiniteSets, TLC

\* ------------------------------------------------------------------------
\* Bounds of the model
\* ------------------------------------------------------------------------

\* largest number of catalogue entries: add is not taken beyond it
MaxCat == 2

\* positions given to move range over -MaxPos .. MaxPos
MaxPos == 2

\* ------------------------------------------------------------------------
\* String helpers (python str methods used by the code)
\* ------------------------------------------------------------------------

\* the separator ' = ' of a catalogue line
Sep == <<" ", "=", " ">>

\* str.startswith
StartsWith(s, p) == Len(p) <= Len(s) /\ SubSeq(s, 1, Len(p)) = p

\* index of the first occurrence of ' = ' in s, 0 when there is none
FindSep(s) ==
    LET hits == {i \in 1..Len(s) : i + 2 <= Len(s) /\ SubSeq(s, i, i + 2) = Sep}
    IN  IF hits = {} THEN 0 ELSE CHOOSE i \in hits : \A j \in hits : i <= j

\* ' = ' in line
HasSep(s) == FindSep(s) # 0

\* str.split(' = '): the parts between the non-overlapping occurrences,
\* found from left to right
RECURSIVE SplitSep(_)
SplitSep(s) ==
    LET i == FindSep(s)
    IN  IF i = 0 THEN <<s>>
        ELSE <<SubSeq(s, 1, i - 1)>> \o SplitSep(SubSeq(s, i + 3, Len(s)))

RECURSIVE LStrip(_)
LStrip(s) == IF s # <<>> /\ Head(s) = " " THEN LStrip(Tail(s)) ELSE s

RECURSIVE RStrip(_)
RStrip(s) ==
    IF s # <<>> /\ s[Len(s)] = " " THEN RStrip(SubSeq(s, 1, Len(s) - 1)) ELSE s

\* str.strip
Strip(s) == LStrip(RStrip(s))

RECURSIVE Spaces(_)
Spaces(n) == IF n <= 0 THEN <<>> ELSE <<" ">> \o Spaces(n - 1)

\* '{s:<{width}}': s padded with spaces on the right to at least width
PadRight(s, width) == s \o Spaces(width - Len(s))

\* a pattern of plain characters and '.' matches s at place i
MatchesAt(pat, s, i) ==
    /\ i + Len(pat) - 1 <= Len(s)
    /\ \A k \in 1..Len(pat) : pat[k] = "." \/ pat[k] = s[i + k - 1]

\* re.search for a pattern of plain characters and '.', which may begin
\* with '^': the pattern matches somewhere in s, or at its start
Search(pat, s) ==
    IF pat # <<>> /\ Head(pat) = "^"
    THEN MatchesAt(Tail(pat), s, 1)
    ELSE \E i \in 1..(Len(s) + 1) : MatchesAt(pat, s, i)

\* max() of a set of numbers (0 for the empty set)
MaxOf(S) == IF S = {} THEN 0 ELSE CHOOSE y \in S : \A z \in S : z <= y

\* ------------------------------------------------------------------------
\* The world the program runs in
\* ------------------------------------------------------------------------

\* os.environ['HOME']
HOME == <<"/", "h">>

\* another prefix directory (a 'prefix = ...' line or the -p option)
OtherPrefix == <<"/", "p">>

Prefixes == {HOME, OtherPrefix}

\* directories of the file system that the commands are run in
DirA      == <<"/", "h", "/", "a">>
DirAEq    == <<"/", "h", "/", "a", " ", "=">>
DirB      == <<"/", "h", "/", "b">>
DirNested == <<"/", "h", "/", "a", "/", "a">>
DirPlain  == <<"/", "t">>

\* the roots of the git work trees
RepoRoots == {DirA, DirB, DirAEq}

\* the directories that exist when the catalogue commands are explored
AllDirs == {DirA, DirAEq, DirNested, DirPlain}

\* the directories that exist when the push loop is explored
PushDirs == {DirA, DirB, DirPlain}

\* the directories that 'git cat install' can clone a repository to
CloneRoots == {OtherPrefix \o <<"/", "a">>, OtherPrefix \o <<"/", "b">>}

\* the root of the work tree that contains directory d (<<>> when d is in none)
RootOf(d) ==
    IF d \in RepoRoots \cup CloneRoots THEN d
    ELSE IF d = DirNested THEN DirA
    ELSE <<>>

\* the push URL of the remote 'origin' of the work tree with root d
RemoteOf(d) ==
    IF d = DirA THEN <<"u">> ELSE IF d = DirAEq THEN <<"v">> ELSE <<"w">>

\* repository filters given on the command line (plain words)
Patterns == {<<>>, <<"a">>, <<"b">>}

\* options.repositories: absent (has = FALSE) or a pattern
NoFilter == [has |-> FALSE, pat |-> <<>>]
FilterOf(p) == [has |-> TRUE, pat |-> p]

\* the filter of the commands that act on the current directory (add,
\* remove, move): their options carry no repository filter
DirectoryFilters == {NoFilter}

\* the filters of the batch commands
BatchFilters == {FilterOf(p) : p \in Patterns}

\* ------------------------------------------------------------------------
\* The in-memory catalogue: a python dict, which keeps insertion order
\* ------------------------------------------------------------------------

Entry(d, r) == [dire |-> d, rep |-> r]

Keys(cat) == [i \in 1..Len(cat) |-> cat[i].dire]

KeySet(cat) == {cat[i].dire : i \in 1..Len(cat)}

HasKey(cat, d) == d \in KeySet(cat)

\* catalogue[d]
Lookup(cat, d) == (CHOOSE i \in 1..Len(cat) : cat[i].dire = d)

ValueOf(cat, d) == cat[Lookup(cat, d)].rep

\* reps.index(d), counted from 0 as python does
IndexOf(cat, d) == Lookup(cat, d) - 1

\* a dict that puts a new key first
DictSetFront(cat, d, r) ==
    IF HasKey(cat, d)
    THEN [cat EXCEPT ![Lookup(cat, d)] = Entry(d, r)]
    ELSE <<Entry(d, r)>> \o cat

\* catalogue[d] = r: a new key goes last, an old key keeps its place
DictSet(cat, d, r) ==
    IF HasKey(cat, d)
    THEN [cat EXCEPT ![Lookup(cat, d)] = Entry(d, r)]
    ELSE Append(cat, Entry(d, r))

\* a del that drops the first entry whatever the key
DictDelFirst(cat, d) == Tail(cat)

\* del catalogue[d]
DictDel(cat, d) == SelectSeq(cat, LAMBDA e : e.dire # d)

\* ------------------------------------------------------------------------
\* Settings and paths
\* ------------------------------------------------------------------------

\* Settings.prefix of the module-level settings object: set once in
\* Settings.__init__ and assigned nowhere else
settings_prefix == HOME

\* Settings.save_settings: the lines of the settings section
save_settings ==
    IF settings_prefix # HOME
    THEN << <<>>, <<"prefix">> \o Sep \o settings_prefix, <<>> >>
    ELSE << >>

\* os.path.expanduser of the two places of the catalogue file
DotfilesRc == HOME \o <<"/", ".dotfiles", "/", "config", "/", "gitcatrc">>
HomeRc     == HOME \o <<"/", ".gitcatrc">>

\* Settings.__init__, the choice of rc_file: isdir tells whether the
\* directory ~/.dotfiles/config exists, isfile whether the file gitcatrc
\* exists in it.  The second test reads self.rc_file before it asks
\* hasattr, and a Settings object has no such attribute unless the first
\* test has set it.
Settings_init(isdir, isfile) ==
    IF ~isdir
    THEN [isdir |-> isdir, err |-> "AttributeError", rc_file |-> <<>>]
    ELSE IF ~(isfile \/ TRUE)
    THEN [isdir |-> isdir, err |-> "none", rc_file |-> HomeRc]
    ELSE [isdir |-> isdir, err |-> "none", rc_file |-> DotfilesRc]

\* GitCat.expand_path
expand_path(prefix, dire) ==
    IF StartsWith(dire, <<"/">>) THEN dire ELSE prefix \o <<"/">> \o dire

\* GitCat.short_path
short_path(prefix, dire) ==
    IF StartsWith(dire, prefix)
    THEN SubSeq(dire, Len(prefix) + 2, Len(dire))
    ELSE dire

\* a selection by re.match, which looks at the start of the name only
repositories_match(cat, filter) ==
    IF ~filter.has THEN Keys(cat)
    ELSE SelectSeq(Keys(cat),
                   LAMBDA d : MatchesAt(IF filter.pat # <<>> /\ Head(filter.pat) = "^"
                                        THEN Tail(filter.pat) ELSE filter.pat, d, 1))

\* GitCat.repositories: the keys selected by the filter, in catalogue order
repositories(cat, filter) ==
    IF ~filter.has THEN Keys(cat)
    ELSE SelectSeq(Keys(cat), LAMBDA d : Search(filter.pat, d))

\* self.max as read_catalogue sets it
max_key(cat, filter) ==
    LET reps == repositories(cat, filter)
    IN  IF reps = <<>> THEN 0
        ELSE MaxOf({Len(reps[i]) : i \in 1..Len(reps)}) + 1

\* ------------------------------------------------------------------------
\* Writing the catalogue file
\* ------------------------------------------------------------------------

\* one line of list_catalogue(listing=True)
catalogue_line(dire, rep, max) == PadRight(dire, max) \o Sep \o rep

\* GitCat.list_catalogue(listing=True), as the lines of its string
list_catalogue(cat, filter, max) ==
    LET reps == repositories(cat, filter)
    IN  IF reps = <<>> THEN << <<>> >>
        ELSE [i \in 1..Len(reps) |->
                 catalogue_line(reps[i], ValueOf(cat, reps[i]), max)]

\* GitCat.save_catalogue: the lines of the file that it writes
save_catalogue(cat, filter, max) ==
    << <<"#">>, <<"#">> >> \o save_settings \o << <<"Catalogue:">> >>
        \o list_catalogue(cat, filter, max)

\* ------------------------------------------------------------------------
\* Reading the catalogue file
\* ------------------------------------------------------------------------

\* the state of the loop of read_catalogue
ReadStart(optprefix) ==
    [reading_settings |-> TRUE, prefix |-> optprefix, catalogue |-> <<>>,
     err |-> "none"]

\* one line of the loop of read_catalogue.  A line with more than one
\* ' = ' makes the unpacking of split() raise ValueError, which nothing
\* catches.  Before the 'Catalogue:' line a key that names an attribute is
\* assigned to it; of the names that occur here only 'prefix' is one.
read_line(st, line) ==
    LET settings == st.reading_settings /\ Strip(line) # <<"Catalogue:">>
        parts    == SplitSep(line)
        dire     == Strip(parts[1])
        rep      == Strip(parts[2])
        st1      == [st EXCEPT !.reading_settings = settings]
    IN  IF st.err # "none" THEN st
        ELSE IF ~HasSep(line) THEN st1
        ELSE IF Len(parts) # 2 THEN [st1 EXCEPT !.err = "ValueError"]
        ELSE IF settings
             THEN IF dire = <<"prefix">> THEN [st1 EXCEPT !.prefix = rep]
                  ELSE st1
        ELSE IF HasKey(st.catalogue, dire)
             THEN [st1 EXCEPT !.err = "appears in the catalogue more than once"]
        ELSE [st1 EXCEPT !.catalogue = Append(st.catalogue, Entry(dire, rep))]

RECURSIVE read_lines(_, _)
read_lines(st, lines) ==
    IF lines = <<>> THEN st
    ELSE read_lines(read_line(st, Head(lines)), Tail(lines))

\* GitCat.read_catalogue on the file `lines`, with self.prefix = optprefix
\* before the call
read_catalogue(lines, optprefix) == read_lines(ReadStart(optprefix), lines)

\* ------------------------------------------------------------------------
\* Reordering the catalogue
\* ------------------------------------------------------------------------

\* the state of the loop of move
MoveStart == [catalogue |-> <<>>, delta |-> 0, err |-> "none"]

\* one round of the loop of move, for index pos (from 0) of the old
\* catalogue cat: reps[pos+delta] beyond the end raises IndexError
move_step(st, cat, dire, dire_pos, position, pos) ==
    LET k   == pos + st.delta
        st1 == IF pos = position
               THEN [st EXCEPT
                        !.catalogue = DictSet(st.catalogue, dire, ValueOf(cat, dire)),
                        !.delta = IF position < dire_pos THEN -1 ELSE 0]
               ELSE IF k >= Len(cat)
               THEN [st EXCEPT !.err = "IndexError"]
               ELSE [st EXCEPT
                        !.catalogue = DictSet(st.catalogue, cat[k + 1].dire,
                                              cat[k + 1].rep)]
    IN  IF st1.err # "none" THEN st1
        ELSE IF pos = dire_pos
        THEN [st1 EXCEPT !.delta = IF position > dire_pos THEN 1 ELSE 0]
        ELSE st1

RECURSIVE move_loop(_, _, _, _, _, _)
move_loop(st, cat, dire, dire_pos, position, pos) ==
    IF pos >= Len(cat) \/ st.err # "none" THEN st
    ELSE move_loop(move_step(st, cat, dire, dire_pos, position, pos),
                   cat, dire, dire_pos, position, pos + 1)

\* the body of move for a repository dire of the catalogue: the new
\* catalogue, whether it is saved, and the exception raised if any.
\* (GitCat.__init__ calls its commands without arguments, so the method is
\* modelled as it is written, for every position it can be given.)
move_catalogue(cat, dire, pos0) ==
    LET position == IF pos0 < 0 THEN pos0 + Len(cat) ELSE pos0
        dire_pos == IndexOf(cat, dire)
        st       == move_loop(MoveStart, cat, dire, dire_pos, position, 0)
    IN  IF dire_pos = position
        THEN [catalogue |-> cat, saved |-> FALSE, err |-> "none"]
        ELSE [catalogue |-> st.catalogue, saved |-> st.err = "none",
              err |-> st.err]

\* ------------------------------------------------------------------------
\* State
\* ------------------------------------------------------------------------

VARIABLES
    rcfile,     \* the lines of the catalogue file (options.catalogue)
    dirs,       \* the directories that exist on the file system
    catalogue,  \* self.catalogue of the running (or the last) invocation
    prefix,     \* self.prefix of the running (or the last) invocation
    inv,        \* the running (or the last) invocation: command line,
                \* what it loaded, and how it ended
    pc,         \* "idle" between invocations, "push" inside the loop of push
    todo,       \* the repositories that the loop has still to process
    processed,  \* the repositories that the loop has processed, in order
    gitlog,     \* the git commands run for the repository processed last
                \* (the keys of a catalogue are distinct, so these are all
                \* the commands of the invocation for that repository)
    getcwd,     \* os.getcwd() of the process that runs a batch command
    out,        \* what the batch command printed for the repository
                \* processed last
    settings,   \* the module-level Settings object of the last start-up
    procs       \* the invocations that run at the same time: for each its
                \* position, what it loaded and what it writes

vars == <<rcfile, dirs, catalogue, prefix, inv, pc, todo, processed, gitlog,
          getcwd, out, settings, procs>>

\* the variables that only the batch commands and the concurrent
\* invocations use
batchvars == <<getcwd, out, settings, procs>>

\* their values before any of these has run
BatchIdle ==
    /\ getcwd = HOME
    /\ out = <<>>
    /\ settings = Settings_init(TRUE, FALSE)
    /\ procs = <<>>

\* the record kept of an invocation
Invocation(cmd) ==
    [cmd |-> cmd, filter |-> NoFilter, dry_run |-> FALSE, quiet |-> FALSE,
     cwd |-> <<>>, git |-> "ok", exit |-> 0, err |-> "none", saved |-> FALSE,
     pre_file |-> rcfile, pre_dirs |-> dirs, loaded |-> <<>>,
     dire |-> <<>>, rep |-> <<>>, position |-> 0, everything |-> FALSE,
     removed |-> <<>>, installed |-> FALSE, connected |-> TRUE]

\* one Git(rep, command, options) call: dry tells whether the options ask
\* git for a dry run, ok is Git.__bool__
\* and output tells what the output holds ("none" when it is empty)
GitCall(rep, command, dry, ok, output) ==
    [rep |-> rep, command |-> command, dry |-> dry, ok |-> ok, output |-> output]

\* catalogue files that exist before the first invocation: an empty
\* catalogue written by save_catalogue, and one written by hand that sets
\* the prefix
InitFiles ==
    { save_catalogue(<<>>, NoFilter, 0),
      << <<"#">>, <<"prefix">> \o Sep \o OtherPrefix, <<"Catalogue:">> >> }

Init ==
    /\ rcfile \in InitFiles
    /\ dirs = AllDirs
    /\ catalogue = <<>>
    /\ prefix = HOME
    /\ inv = [Invocation("none") EXCEPT !.pre_file = <<>>]
    /\ pc = "idle"
    /\ todo = <<>>
    /\ processed = <<>>
    /\ gitlog = <<>>
    /\ BatchIdle

\* ------------------------------------------------------------------------
\* Helpers of the commands
\* ------------------------------------------------------------------------

\* what git answers to the two queries of add, remove and move:
\* 'git root' fails, 'git remote get-url --push origin' fails, or both work
GitAnswers == {"no root", "no remote", "ok"}

\* GitCat.is_git_repository, when git itself works
is_git_repository(ds, dire) == dire \in ds /\ RootOf(dire) # <<>>

\* GitCat.get_current_git_root in directory cwd, followed by the query of
\* the remote that add, remove and move make next
get_current_git_root(ds, pfx, cwd, git) ==
    LET dire == expand_path(pfx, short_path(pfx, cwd))
    IN  IF ~is_git_repository(ds, dire)
        THEN [err |-> "not a git repository", root |-> <<>>, cwd |-> cwd]
        ELSE IF git = "no root"
        THEN [err |-> "is not a git repository", root |-> <<>>, cwd |-> dire]
        ELSE IF git = "no remote"
        THEN [err |-> "Unable to find remote repository", root |-> RootOf(dire),
              cwd |-> dire]
        ELSE [err |-> "none", root |-> RootOf(dire), cwd |-> dire]

\* the catalogue that an invocation has loaded: none when read_catalogue
\* ended the invocation
loaded(r) == IF r.err = "none" THEN r.catalogue ELSE <<>>

\* an add that never finds the repository in the catalogue
add_in_catalogue_never(cat, dire) == FALSE

\* 'dire in self.catalogue' of add
add_in_catalogue(cat, dire) == HasKey(cat, dire)

\* a remove that takes every repository to be in the catalogue
remove_in_catalogue_always(cat, dire) == TRUE

\* 'dire not in self.catalogue' of remove, negated
remove_in_catalogue(cat, dire) == HasKey(cat, dire)

\* 'dire in self.catalogue' of move
move_in_catalogue(cat, dire) == HasKey(cat, dire)

\* shutil.rmtree(path): path and everything below it
rmtree(ds, path) == {d \in ds : ~(d = path \/ StartsWith(d, path \o <<"/">>))}

\* an invocation that ends with exit status 1 (error_message, or an
\* exception) before it writes anything
Fail(i, r, err) ==
    /\ catalogue' = r.catalogue
    /\ prefix' = r.prefix
    /\ inv' = [i EXCEPT !.exit = 1, !.err = err]
    /\ UNCHANGED <<rcfile, dirs, pc, todo, processed, gitlog, batchvars>>

\* ------------------------------------------------------------------------
\* git cat add
\* ------------------------------------------------------------------------

add(r, cwd, filter, git) ==
    LET i    == [Invocation("add") EXCEPT !.loaded = loaded(r), !.cwd = cwd,
                                          !.git = git]
        g    == get_current_git_root(dirs, r.prefix, cwd, git)
        dire == short_path(r.prefix, g.root)
        rep  == RemoteOf(g.root)
        new  == DictSet(r.catalogue, dire, rep)
        id   == [i EXCEPT !.dire = dire, !.rep = rep]
    IN  /\ pc = "idle"
        /\ IF r.err # "none" THEN Fail(i, r, r.err)
           ELSE IF g.err # "none" THEN Fail(i, r, g.err)
           ELSE IF add_in_catalogue(r.catalogue, dire)
           THEN Fail(id, r, "already in the catalogue")
           ELSE /\ Len(new) <= MaxCat
                /\ catalogue' = new
                /\ prefix' = r.prefix
                /\ rcfile' = save_catalogue(new, filter, max_key(r.catalogue, filter))
                /\ inv' = [id EXCEPT !.saved = TRUE]
                /\ UNCHANGED <<dirs, pc, todo, processed, gitlog, batchvars>>

Add ==
    \E optprefix \in Prefixes :
        LET r == read_catalogue(rcfile, optprefix)
        IN  \E cwd \in dirs, filter \in DirectoryFilters, git \in GitAnswers :
                add(r, cwd, filter, git)

\* ------------------------------------------------------------------------
\* git cat remove
\* ------------------------------------------------------------------------

remove(r, cwd, filter, git, everything) ==
    LET i      == [Invocation("remove") EXCEPT
                      !.loaded = loaded(r), !.cwd = cwd, !.git = git,
                      !.everything = everything]
        g      == get_current_git_root(dirs, r.prefix, cwd, git)
        dire   == short_path(r.prefix, g.root)
        new    == DictDel(r.catalogue, dire)
        id     == [i EXCEPT !.dire = dire]
        \* shutil.rmtree(dire): a relative path is taken from the current
        \* directory, which get_current_git_root has set
        target == IF StartsWith(dire, <<"/">>) THEN dire
                  ELSE g.cwd \o <<"/">> \o dire
    IN  /\ pc = "idle"
        /\ IF r.err # "none" THEN Fail(i, r, r.err)
           ELSE IF g.err # "none" THEN Fail(i, r, g.err)
           ELSE IF ~remove_in_catalogue(r.catalogue, dire)
           THEN Fail(id, r, "unknown repository")
           ELSE /\ catalogue' = new
                /\ prefix' = r.prefix
                /\ rcfile' = save_catalogue(new, filter, max_key(r.catalogue, filter))
                /\ IF ~everything
                   THEN /\ inv' = [id EXCEPT !.saved = TRUE]
                        /\ dirs' = dirs
                   ELSE IF target \notin dirs
                   THEN \* FileNotFoundError, reported by GitCat.__init__
                        /\ inv' = [id EXCEPT !.saved = TRUE, !.exit = 1,
                                             !.err = "unknown error"]
                        /\ dirs' = dirs
                   ELSE /\ inv' = [id EXCEPT !.saved = TRUE, !.removed = target]
                        /\ dirs' = rmtree(dirs, target)
                /\ UNCHANGED <<pc, todo, processed, gitlog, batchvars>>

Remove ==
    \E optprefix \in Prefixes :
        LET r == read_catalogue(rcfile, optprefix)
        IN  \E cwd \in dirs, filter \in DirectoryFilters, git \in GitAnswers,
               everything \in BOOLEAN :
                remove(r, cwd, filter, git, everything)

\* ------------------------------------------------------------------------
\* move(position)
\* ------------------------------------------------------------------------

move(r, cwd, filter, git, position) ==
    LET i    == [Invocation("move") EXCEPT !.loaded = loaded(r), !.cwd = cwd,
                                           !.git = git]
        g    == get_current_git_root(dirs, r.prefix, cwd, git)
        dire == short_path(r.prefix, g.root)
        id   == [i EXCEPT !.dire = dire, !.position = position]
        m    == move_catalogue(r.catalogue, dire, position)
    IN  /\ pc = "idle"
        /\ IF r.err # "none" THEN Fail(i, r, r.err)
           ELSE IF g.err # "none" THEN Fail(i, r, g.err)
           ELSE IF ~move_in_catalogue(r.catalogue, dire)
           THEN Fail([i EXCEPT !.dire = dire], r, "not in the catalogue")
           ELSE /\ catalogue' = m.catalogue
                /\ prefix' = r.prefix
                /\ rcfile' = IF m.saved
                             THEN save_catalogue(m.catalogue, filter,
                                                 max_key(r.catalogue, filter))
                             ELSE rcfile
                /\ inv' = [id EXCEPT !.saved = m.saved,
                                     !.exit = IF m.err = "none" THEN 0 ELSE 1,
                                     !.err = IF m.err = "none" THEN "none"
                                             ELSE "unknown error"]
                /\ UNCHANGED <<dirs, pc, todo, processed, gitlog, batchvars>>

Move ==
    \E optprefix \in Prefixes :
        LET r == read_catalogue(rcfile, optprefix)
        IN  \E cwd \in dirs, filter \in DirectoryFilters, git \in GitAnswers,
               position \in (-MaxPos)..MaxPos :
                move(r, cwd, filter, git, position)

Next == Add \/ Remove \/ Move

Spec == Init /\ [][Next]_vars

\* ------------------------------------------------------------------------
\* Properties of the catalogue commands
\* ------------------------------------------------------------------------

\* the lines of a catalogue file after its 'Catalogue:' line
RECURSIVE CatalogueSection(_)
CatalogueSection(lines) ==
    IF lines = <<>> THEN <<>>
    ELSE IF Strip(Head(lines)) = <<"Catalogue:">> THEN Tail(lines)
    ELSE CatalogueSection(Tail(lines))

\* a line holds the entry dire -> rep: the name, any padding, ' = ', the URL
LineHolds(line, dire, rep) ==
    \E n \in 0..Len(line) : line = dire \o Spaces(n) \o Sep \o rep

\* a file holds exactly the entries of cat, in the order of cat
FileHolds(lines, cat) ==
    LET sec == CatalogueSection(lines)
    IN  IF cat = <<>> THEN sec \in {<<>>, << <<>> >>}
        ELSE /\ Len(sec) = Len(cat)
             /\ \A k \in 1..Len(cat) : LineHolds(sec[k], cat[k].dire, cat[k].rep)

\* the short directory name of the repository that contains the current
\* directory of the invocation (<<>> when it is in no repository)
CurrentName ==
    IF inv.cwd \in inv.pre_dirs /\ RootOf(inv.cwd) # <<>>
    THEN short_path(prefix, RootOf(inv.cwd))
    ELSE <<>>

\* the entries of a catalogue, as a set of pairs
EntrySet(cat) == {cat[k] : k \in 1..Len(cat)}

\* the entries of cat other than the one of dire, in their order
Others(cat, dire) == SelectSeq(cat, LAMBDA e : e.dire # dire)

\* C1: the file written by save_catalogue is read back by read_catalogue as
\* the catalogue that was saved: same keys, same URLs, same order.
C1_RoundTrip ==
    inv.saved =>
        LET r == read_catalogue(rcfile, HOME)
        IN  r.err = "none" /\ r.catalogue = catalogue

\* C2: a catalogue loaded with a prefix other than HOME and then saved is
\* written with that prefix, so that the next load has the same prefix.
C2_PrefixSaved ==
    (inv.saved /\ prefix # HOME) => read_catalogue(rcfile, HOME).prefix = prefix

\* C3 as claimed: add in a repository whose name is a key of the catalogue
\* ends with 'already in the catalogue', exit status 1, nothing changed.
C3_Original ==
    (inv.cmd = "add" /\ CurrentName # <<>> /\ HasKey(inv.loaded, CurrentName)) =>
        /\ inv.err = "already in the catalogue"
        /\ inv.exit = 1
        /\ catalogue = inv.loaded
        /\ rcfile = inv.pre_file

\* C3: add in a repository whose name is a key of the catalogue ends with
\* exit status 1 and changes neither the catalogue in memory nor the file;
\* the error is 'already in the catalogue' when git reports the root of
\* the repository and its remote URL, and the error of the failed git
\* query otherwise.
C3_AddKnown ==
    (inv.cmd = "add" /\ CurrentName # <<>> /\ HasKey(inv.loaded, CurrentName)) =>
        /\ inv.exit = 1
        /\ ~inv.saved
        /\ catalogue = inv.loaded
        /\ rcfile = inv.pre_file
        /\ inv.git = "ok" => inv.err = "already in the catalogue"
        /\ inv.git = "no root" => inv.err = "is not a git repository"
        /\ inv.git = "no remote" => inv.err = "Unable to find remote repository"

C3_Witness ==
    /\ inv.cmd = "add"
    /\ inv.err = "already in the catalogue"
    /\ HasKey(inv.loaded, CurrentName)
    /\ ValueOf(inv.loaded, CurrentName) # RemoteOf(RootOf(inv.cwd))

\* C4: a successful add writes a file that holds the entries loaded before,
\* unchanged and in their order, followed by one entry that maps the name
\* of the repository to its remote push URL.
C4_AddAppends ==
    (inv.cmd = "add" /\ inv.saved) =>
        /\ ~HasKey(inv.loaded, CurrentName)
        /\ FileHolds(rcfile,
               Append(inv.loaded, Entry(CurrentName, RemoteOf(RootOf(inv.cwd)))))
        /\ catalogue = Append(inv.loaded, Entry(CurrentName, RemoteOf(RootOf(inv.cwd))))

C4_Witness ==
    /\ inv.cmd = "add"
    /\ inv.saved
    /\ Len(inv.loaded) >= 1
    /\ Len(CatalogueSection(rcfile)) = Len(inv.loaded) + 1

\* C5: remove in a directory that is in no git repository, or whose
\* repository is not in the catalogue, ends with exit status 1, writes no
\* file and deletes no directory.
C5_RemoveUnknown ==
    (inv.cmd = "remove" /\ (CurrentName = <<>> \/ ~HasKey(inv.loaded, CurrentName))) =>
        /\ inv.exit = 1
        /\ inv.err # "none"
        /\ ~inv.saved
        /\ rcfile = inv.pre_file
        /\ dirs = inv.pre_dirs

C5_Witness ==
    /\ inv.cmd = "remove"
    /\ inv.everything
    /\ inv.err = "unknown repository"
    /\ Len(inv.loaded) >= 1

\* C6: a successful remove writes a file that holds the entries loaded
\* before without the entry of the current repository, the others with
\* their URLs and in their order; a directory is deleted only under the
\* option 'everything'.
C6_RemoveExactly ==
    (inv.cmd = "remove" /\ inv.saved) =>
        /\ HasKey(inv.loaded, CurrentName)
        /\ FileHolds(rcfile, Others(inv.loaded, CurrentName))
        /\ catalogue = Others(inv.loaded, CurrentName)
        /\ dirs # inv.pre_dirs => inv.everything

C6_Witness ==
    /\ inv.cmd = "remove"
    /\ inv.saved
    /\ Len(inv.loaded) >= 2
    /\ inv.loaded[1].dire = CurrentName
    /\ dirs # inv.pre_dirs

\* C7: a move that ends without an error keeps the entries of the
\* catalogue: the same keys with the same URLs, in memory and in the file.
C7_MoveKeepsEntries ==
    (inv.cmd = "move" /\ inv.exit = 0) =>
        /\ EntrySet(catalogue) = EntrySet(inv.loaded)
        /\ Len(catalogue) = Len(inv.loaded)
        /\ FileHolds(rcfile, catalogue)

\* C8: after move(position) with -n <= position < n the current repository
\* is at index position (a negative position counted from the end) and the
\* other entries keep their relative order.
C8_MovePlaces ==
    LET n == Len(inv.loaded)
        p == IF inv.position < 0 THEN inv.position + n ELSE inv.position
    IN  (inv.cmd = "move" /\ inv.exit = 0 /\ -n <= inv.position /\ inv.position < n) =>
            /\ Len(catalogue) = n
            /\ catalogue[p + 1].dire = inv.dire
            /\ Others(catalogue, inv.dire) = Others(inv.loaded, inv.dire)

\* ------------------------------------------------------------------------
\* git cat push
\* ------------------------------------------------------------------------

\* what git answers for one repository of the loop:
\*   wt     'git rev-parse --is-inside-work-tree' works
\*   diff   'git diff-index --name-only HEAD' fails, lists nothing, lists files
\*   commit 'git commit' works
\*   ref    'git for-each-ref' fails, reports no 'ahead', reports 'ahead'
\*   push   'git push' works
Outcomes ==
    [wt : BOOLEAN, diff : {"fail", "none", "changes"}, commit : BOOLEAN,
     ref : {"fail", "level", "ahead"}, push : BOOLEAN]

\* GitCat.is_git_repository for a catalogue entry: the git call that it
\* makes, if any, and its result
check_repository(ds, rep, dire, o) ==
    IF dire \notin ds THEN [log |-> <<>>, ok |-> FALSE]
    ELSE LET ok == RootOf(dire) # <<>> /\ o.wt
         IN  [log |-> <<GitCall(rep, "rev-parse", FALSE, ok,
                                IF ok THEN "true" ELSE "none")>>,
              ok |-> ok]

\* GitCat.changed_files
changed_files(rep, o) ==
    GitCall(rep, "diff-index", FALSE, o.diff # "fail",
            IF o.diff = "changes" THEN "changes" ELSE "none")

\* a commit_repository that never commits
commit_repository_skip(rep, dry_run, o) ==
    LET changed == changed_files(rep, o)
    IN  [log |-> <<changed>>, result |-> changed]

\* GitCat.commit_repository: the git calls that it makes and the Git
\* record that it returns
commit_repository(rep, dry_run, o) ==
    LET changed == changed_files(rep, o)
        commit  == GitCall(rep, "commit", dry_run, o.commit,
                           IF o.commit THEN "commit" ELSE "none")
    IN  IF changed.ok /\ changed.output # "none"
        THEN [log |-> <<changed, commit>>, result |-> commit]
        ELSE [log |-> <<changed>>, result |-> changed]

\* the body of the loop of push for an installed repository
push_repository(rep, dry_run, o) ==
    LET c     == commit_repository(rep, dry_run, o)
        ahead == GitCall(rep, "for-each-ref", FALSE, o.ref # "fail",
                         IF o.ref = "ahead" THEN "ahead" ELSE "none")
        push  == GitCall(rep, "push", dry_run, o.push,
                         IF o.push THEN "Done" ELSE "none")
    IN  IF ~c.result.ok THEN c.log
        ELSE IF ~ahead.ok THEN c.log \o <<ahead>>
        ELSE IF ahead.output # "ahead" THEN c.log \o <<ahead>>
        ELSE IF ~dry_run THEN c.log \o <<ahead, push>>
        ELSE c.log \o <<ahead>>

\* the start of an invocation of push: GitCat.__init__ loads the
\* catalogue, push tests the connection and enters its loop
PushStart ==
    \E optprefix \in Prefixes, filter \in BatchFilters, dry_run \in BOOLEAN,
       connected \in BOOLEAN :
        LET r == read_catalogue(rcfile, optprefix)
            i == [Invocation("push") EXCEPT !.loaded = loaded(r),
                     !.filter = filter, !.dry_run = dry_run]
        IN  /\ pc = "idle"
            /\ IF r.err # "none" THEN Fail(i, r, r.err)
               ELSE /\ catalogue' = r.catalogue
                    /\ prefix' = r.prefix
                    /\ inv' = i
                    /\ pc' = IF connected THEN "push" ELSE "idle"
                    /\ todo' = IF connected THEN repositories(r.catalogue, filter)
                               ELSE <<>>
                    /\ processed' = <<>>
                    /\ gitlog' = <<>>
                    /\ UNCHANGED <<rcfile, dirs, batchvars>>

\* one round of the loop of push
PushRep ==
    \E o \in Outcomes :
        LET rep  == Head(todo)
            dire == expand_path(prefix, rep)
            g    == check_repository(dirs, rep, dire, o)
        IN  /\ pc = "push"
            /\ todo # <<>>
            /\ todo' = Tail(todo)
            /\ processed' = Append(processed, rep)
            /\ gitlog' = IF g.ok
                         THEN g.log \o push_repository(rep, inv.dry_run, o)
                         ELSE g.log
            /\ UNCHANGED <<rcfile, dirs, catalogue, prefix, inv, pc, batchvars>>

\* the loop of push has run through its repositories
PushEnd ==
    /\ pc = "push"
    /\ todo = <<>>
    /\ pc' = "idle"
    /\ UNCHANGED <<rcfile, dirs, catalogue, prefix, inv, todo, processed, gitlog,
                    batchvars>>

\* the catalogues that the push loop is explored on
PushKeys == {<<"a">>, <<"b">>, DirPlain}

PushCatalogues ==
    {<<>>} \cup
    UNION {{cat \in [1..n -> {Entry(k, RemoteOf(expand_path(HOME, k))) : k \in PushKeys}] :
                \A x, y \in 1..n : x # y => cat[x].dire # cat[y].dire} :
           n \in 1..MaxCat}

InitPush ==
    /\ rcfile \in {save_catalogue(cat, NoFilter, max_key(cat, NoFilter)) :
                      cat \in PushCatalogues}
    /\ dirs = PushDirs
    /\ catalogue = <<>>
    /\ prefix = HOME
    /\ inv = [Invocation("none") EXCEPT !.pre_file = <<>>]
    /\ pc = "idle"
    /\ todo = <<>>
    /\ processed = <<>>
    /\ gitlog = <<>>
    /\ BatchIdle

NextPush == PushStart \/ PushRep \/ PushEnd

SpecPush == InitPush /\ [][NextPush]_vars

\* ------------------------------------------------------------------------
\* Properties of push
\* ------------------------------------------------------------------------

\* the places of gitlog that hold a call of the command
CallsOf(command) == {k \in 1..Len(gitlog) : gitlog[k].command = command}

\* C9: every real 'git push' of a repository comes after a dry run of
\* push on that repository, in the same invocation, that succeeded.
C9_DryRunBeforePush ==
    \A k \in CallsOf("push") :
        ~gitlog[k].dry =>
            \E j \in 1..(k - 1) :
                /\ gitlog[j].command = "push"
                /\ gitlog[j].rep = gitlog[k].rep
                /\ gitlog[j].dry
                /\ gitlog[j].ok

\* C10: in the loop of push, a repository whose changed-files query lists
\* files is committed with 'git commit --all', and the commit comes before
\* any push of it; no push is run for a repository whose changed-files
\* query or commit failed.
C10_CommitBeforePush ==
    /\ \A d \in CallsOf("diff-index") :
          (gitlog[d].ok /\ gitlog[d].output = "changes") =>
              \E c \in CallsOf("commit") :
                  /\ d < c
                  /\ gitlog[c].rep = gitlog[d].rep
                  /\ \A k \in CallsOf("push") : c < k
    /\ \A k \in CallsOf("push") :
          /\ \E d \in CallsOf("diff-index") : d < k /\ gitlog[d].ok
          /\ \A j \in 1..Len(gitlog) :
                gitlog[j].command \in {"diff-index", "commit"} => gitlog[j].ok

C10_Witness ==
    /\ inv.cmd = "push"
    /\ \E c \in CallsOf("commit"), k \in CallsOf("push") :
          c < k /\ gitlog[c].ok /\ gitlog[k].ok /\ Len(processed) >= 2

\* ------------------------------------------------------------------------
\* The batch commands: what they share
\* ------------------------------------------------------------------------

\* the commands that run through the repositories of the catalogue
BatchCommands ==
    {"branch", "commit", "diff", "fetch", "install", "list", "pull", "push",
     "remote-set-ssh", "status"}

\* the commands whose loop is guarded by is_git_repository
InstalledCommands == BatchCommands \ {"install", "list"}

\* What a command has done for one repository: the git calls (each with
\* the working directory it ran in), what was printed, the working
\* directory and the directories that exist.  A printed text is a sequence
\* of lines and a line a sequence of words.
BodyStart == [log |-> <<>>, out |-> <<>>, cwd |-> getcwd, dirs |-> dirs]

\* a Git record together with the working directory of its subprocess
At(call, d) ==
    [rep |-> call.rep, command |-> call.command, dry |-> call.dry,
     ok |-> call.ok, output |-> call.output, cwd |-> d]

\* a line printed for a repository
Printed(kind, r, text) == [kind |-> kind, rep |-> r, text |-> text]

\* Git.__init__: the subprocess runs in the working directory of the
\* process; a return code other than 0 prints the error message
run(b, call) ==
    [b EXCEPT !.log = Append(@, At(call, b.cwd)),
              !.out = IF call.ok THEN @
                      ELSE Append(@, Printed("error", call.rep,
                                             << <<call.command>> >>))]

RECURSIVE run_all(_, _)
run_all(b, calls) ==
    IF calls = <<>> THEN b ELSE run_all(run(b, Head(calls)), Tail(calls))

\* GitCat.rep_message: nothing is printed when both quiet and self.quiet
rep_message(b, r, text, quiet, self_quiet) ==
    IF quiet /\ self_quiet THEN b
    ELSE [b EXCEPT !.out = Append(@, Printed("message", r, text))]

\* GitCat.message
message(b, r, text, self_quiet) ==
    IF self_quiet THEN b
    ELSE [b EXCEPT !.out = Append(@, Printed("message", r, text))]

\* an is_git_repository that does not change the directory
chdir_stay(b, dire) == b

\* os.chdir
chdir(b, dire) == [b EXCEPT !.cwd = dire]

\* GitCat.is_git_repository inside a loop: the directory is entered when it
\* exists, and 'git rev-parse --is-inside-work-tree' is run there
is_git_repository_in(b, r, dire, o) ==
    LET g  == check_repository(b.dirs, r, dire, o)
        b1 == IF dire \in b.dirs THEN chdir(b, dire) ELSE b
    IN  [b |-> run_all(b1, g.log), ok |-> g.ok]

\* what a git command of branch, diff, fetch and pull gives: it fails, or
\* its output is empty, one line or several lines
GitTexts == {"fail", "none", "line", "lines"}

\* the Git record of such a command
TextCall(r, command, t) ==
    GitCall(r, command, FALSE, t # "fail", IF t = "fail" THEN "none" ELSE t)

\* ------------------------------------------------------------------------
\* git cat branch, commit, diff, fetch, pull
\* ------------------------------------------------------------------------

\* the loop of branch for one repository
branch(b, r, dire, o, q) ==
    LET g  == is_git_repository_in(b, r, dire, o)
        b1 == run(g.b, TextCall(r, "branch", o.text))
    IN  IF ~g.ok THEN rep_message(g.b, r, << <<"not on system">> >>, TRUE, q)
        ELSE IF o.text = "fail" THEN b1
        ELSE IF o.text # "lines"
        THEN rep_message(b1, r, << <<"already up to date">> >>, TRUE, q)
        ELSE rep_message(b1, r, << <<>>, <<"branch", "output">> >>, TRUE, q)

\* the loop of commit for one repository
commit(b, r, dire, o, dry_run) ==
    LET g == is_git_repository_in(b, r, dire, o)
    IN  IF ~g.ok THEN g.b
        ELSE run_all(g.b, commit_repository(r, dry_run, o).log)

\* the loop of diff for one repository
diff(b, r, dire, o, q) ==
    LET g  == is_git_repository_in(b, r, dire, o)
        b1 == run(g.b, TextCall(r, "diff", o.text))
    IN  IF ~g.ok THEN g.b
        ELSE IF o.text = "fail" THEN b1
        ELSE IF o.text # "none"
        THEN rep_message(b1, r, << <<"diff", "output">> >>, FALSE, q)
        ELSE rep_message(b1, r, << <<"up to date">> >>, TRUE, q)

\* the loop of fetch for one repository
fetch(b, r, dire, o, q) ==
    LET g  == is_git_repository_in(b, r, dire, o)
        b1 == run(g.b, TextCall(r, "fetch", o.text))
    IN  IF ~g.ok THEN rep_message(g.b, r, << <<"not on system">> >>, TRUE, q)
        ELSE IF o.text = "fail" THEN b1
        ELSE IF o.text = "none"
        THEN rep_message(b1, r, << <<"already up to date">> >>, TRUE, q)
        ELSE rep_message(b1, r, << <<"fetch", "output">> >>, TRUE, q)

\* a pull that does not ask whether the repository is installed
pull_everywhere(b, r, dire, o, q) ==
    LET g  == is_git_repository_in(b, r, dire, o)
    IN  run(g.b, TextCall(r, "pull", o.text))

\* the loop of pull for one repository
pull(b, r, dire, o, q) ==
    LET g  == is_git_repository_in(b, r, dire, o)
        b1 == run(g.b, TextCall(r, "pull", o.text))
    IN  IF ~g.ok
        THEN rep_message(g.b, r, << <<"repository not installed">> >>, TRUE, q)
        ELSE IF o.text = "fail" THEN b1
        ELSE IF o.text = "none"
        THEN rep_message(b1, r, << <<"already up to date">> >>, TRUE, q)
        ELSE rep_message(b1, r, << <<"pulling">>, <<"pull", "output">> >>,
                         FALSE, q)

\* ------------------------------------------------------------------------
\* git cat status
\* ------------------------------------------------------------------------

\* the numbers that occur in the output of git, as words
Digits == {"1", "2"}

\* where the items '(ahead|behind) [0-9]+(, )?' that start at place i of a
\* line end: the place after the last of them (i when there is none)
RECURSIVE ItemsEnd(_, _)
ItemsEnd(line, i) ==
    IF i + 2 <= Len(line) /\ line[i] \in {"ahead", "behind"}
       /\ line[i + 1] = " " /\ line[i + 2] \in Digits
    THEN IF i + 3 <= Len(line) /\ line[i + 3] = ", "
         THEN ItemsEnd(line, i + 4)
         ELSE ItemsEnd(line, i + 3)
    ELSE i

\* the places of a line where ahead_behind matches
MarkerStarts(line) ==
    {i \in 1..Len(line) :
        /\ line[i] = "["
        /\ ItemsEnd(line, i + 1) > i + 1
        /\ ItemsEnd(line, i + 1) <= Len(line)
        /\ line[ItemsEnd(line, i + 1)] = "]"}

\* ahead_behind.search(text), then group()[1:-1]: the words between the
\* brackets of the first match, <<>> when nothing matches
RECURSIVE ahead_behind(_)
ahead_behind(text) ==
    IF text = <<>> THEN <<>>
    ELSE LET line == Head(text)
             hits == MarkerStarts(line)
             i    == CHOOSE x \in hits : \A y \in hits : x <= y
         IN  IF hits = {} THEN ahead_behind(Tail(text))
             ELSE SubSeq(line, i + 1, ItemsEnd(line, i + 1) - 1)

\* the places of a line where files_changed matches
CountStarts(line) ==
    {i \in 1..Len(line) :
        /\ i + 4 <= Len(line)
        /\ line[i] \in Digits
        /\ line[i + 1] = " "
        /\ line[i + 2] \in {"file", "files"}
        /\ line[i + 3] = " "
        /\ line[i + 4] = "changed"}

\* files_changed.search(text), then groups()[0]
RECURSIVE files_changed(_)
files_changed(text) ==
    IF text = <<>> THEN <<>>
    ELSE LET line == Head(text)
             hits == CountStarts(line)
             i    == CHOOSE x \in hits : \A y \in hits : x <= y
         IN  IF hits = {} THEN files_changed(Tail(text))
             ELSE SubSeq(line, i, i + 2)

\* Git.output: every line that is not empty, indented by two spaces
Indent(text) == [k \in 1..Len(text) |-> <<"  ">> \o text[k]]

\* what 'git status --porcelain --short --branch' can report between the
\* brackets of its branch line
Markers ==
    { <<>>,
      <<"ahead", " ", "1">>,
      <<"behind", " ", "2">>,
      <<"ahead", " ", "1", ", ", "behind", " ", "2">> }

\* the states of a work tree: nothing to commit, one or two tracked files
\* modified and not staged, a file staged, a file that is not tracked
WorkTrees == {"clean", "modified", "modified2", "staged", "untracked"}

\* the lines that git status prints for the files of a work tree
StatusLinesOf(wt) ==
    IF wt = "modified" THEN << <<"M", " ", "f">> >>
    ELSE IF wt = "modified2" THEN << <<"M", " ", "f">>, <<"M", " ", "g">> >>
    ELSE IF wt = "staged" THEN << <<"M", "  ", "f">> >>
    ELSE IF wt = "untracked" THEN << <<"??", " ", "n">> >>
    ELSE <<>>

\* the output of 'git status --porcelain --short --branch'
StatusOutput(marker, wt) ==
    Indent(<< <<"##", " ", "master...origin/master">>
                 \o (IF marker = <<>> THEN <<>>
                     ELSE <<" ", "[">> \o marker \o <<"]">>) >>
           \o StatusLinesOf(wt))

\* the output of 'git diff --shortstat --no-color', which compares the
\* work tree with the index
DiffOutput(wt) ==
    IF wt = "modified"
    THEN Indent(<< <<"1", " ", "file", " ", "changed", ", ", "1", " ",
                     "insertion(+)">> >>)
    ELSE IF wt = "modified2"
    THEN Indent(<< <<"2", " ", "files", " ", "changed", ", ", "2", " ",
                     "insertions(+)">> >>)
    ELSE <<>>

\* the part of the loop of status that makes the message from the output
\* of git status and, when git diff worked, the output of git diff
status_message(status_output, diff_ok, diff_output) ==
    LET changes  == ahead_behind(status_output)
        lines    == IF Len(status_output) > 1 THEN Tail(status_output)
                    ELSE IF status_output # <<>>
                            /\ StartsWith(status_output[1], <<"  ", "##">>)
                    THEN <<>>
                    ELSE status_output
        count    == IF diff_ok THEN files_changed(diff_output) ELSE <<>>
        changed0 == IF count = <<>> THEN <<>>
                    ELSE <<"uncommitted changes in ">> \o count
        changed  == IF changes = <<>> THEN changed0
                    ELSE IF changed0 = <<>> THEN changes
                    ELSE changed0 \o <<", ">> \o changes
    IN  IF lines # <<>>
        THEN [text |-> <<changed>> \o lines, quiet |-> FALSE]
        ELSE IF changed # <<>>
        THEN [text |-> <<changed>>, quiet |-> FALSE]
        ELSE [text |-> << <<"up to date">> >>, quiet |-> TRUE]

\* the loop of status for one repository: o.local is the option --local,
\* o.remote, o.status and o.diff tell whether the git commands work,
\* o.marker and o.tree what git finds
status(b, r, dire, o, q) ==
    LET g  == is_git_repository_in(b, r, dire, o)
        b1 == IF o.local THEN g.b
              ELSE run(g.b, GitCall(r, "remote", FALSE, o.remote, "none"))
        b2 == run(b1, GitCall(r, "status", FALSE, o.status,
                              StatusOutput(o.marker, o.tree)))
        b3 == run(b2, GitCall(r, "diff", FALSE, o.diff, DiffOutput(o.tree)))
        m  == status_message(StatusOutput(o.marker, o.tree), o.diff,
                             DiffOutput(o.tree))
    IN  IF ~g.ok THEN rep_message(g.b, r, << <<"not on system">> >>, TRUE, q)
        ELSE IF ~(o.local \/ o.remote) THEN b1
        ELSE IF ~o.status THEN b2
        ELSE rep_message(b3, r, m.text, m.quiet, q)

\* ------------------------------------------------------------------------
\* git cat push, remote-set-ssh, list, install
\* ------------------------------------------------------------------------

\* the loop of push for one repository
push(b, r, dire, o, dry_run, q) ==
    LET g     == is_git_repository_in(b, r, dire, o)
        c     == commit_repository(r, dry_run, o)
        b1    == run_all(g.b, c.log)
        b2    == IF c.result.output # "none"
                 THEN rep_message(b1, r, << <<"commit">> >>, TRUE, q)
                 ELSE b1
        ahead == GitCall(r, "for-each-ref", FALSE, o.ref # "fail",
                         IF o.ref = "ahead" THEN "ahead" ELSE "none")
        b3    == run(b2, ahead)
        b4    == run(b3, GitCall(r, "push", dry_run, o.push,
                                 IF o.push THEN "Done" ELSE "none"))
    IN  IF ~g.ok THEN rep_message(g.b, r, << <<"not on system">> >>, TRUE, q)
        ELSE IF ~c.result.ok THEN b1
        ELSE IF ~ahead.ok THEN b3
        ELSE IF ahead.output # "ahead"
        THEN rep_message(b3, r, << <<"up to date">> >>, TRUE, q)
        ELSE IF dry_run THEN b3
        ELSE IF ~o.push THEN b4
        ELSE IF c.result.output = "none"
        THEN rep_message(b4, r, << <<"pushed">>, <<"push", "output">> >>, TRUE, q)
        ELSE message(b4, r, << <<"push", "output">> >>, q)

\* what 'git remote -v' can list: it fails, only ssh URLs, a https URL
\* without a user name, a https URL with one
Remotes == {"fail", "ssh", "https", "https@"}

\* the loop of remote_set_ssh for one repository with the one remote
\* 'origin', which git lists twice (fetch and push): the URL is set for the
\* first line, and for the second too when the first 'set-url' failed
remote_set_ssh(b, r, dire, o, q) ==
    LET g   == is_git_repository_in(b, r, dire, o)
        b1  == run(g.b, GitCall(r, "remote", FALSE, o.remotes # "fail",
                                IF o.remotes = "fail" THEN "none" ELSE o.remotes))
        b2  == run(b1, GitCall(r, "remote set-url", FALSE, o.set1, "none"))
        b3  == run(b2, GitCall(r, "remote set-url", FALSE, o.set2, "none"))
        say == << <<"changed to ssh access">> >>
    IN  IF ~g.ok THEN rep_message(g.b, r, << <<"not on system">> >>, TRUE, q)
        ELSE IF o.remotes = "fail" THEN b1
        ELSE IF o.remotes = "ssh"
        THEN rep_message(b1, r, << <<"unchanged">> >>, TRUE, q)
        ELSE IF o.remotes = "https" THEN b1
        ELSE IF o.set1 THEN rep_message(b2, r, say, TRUE, q)
        ELSE IF o.set2 THEN rep_message(b3, r, say, TRUE, q)
        ELSE b3

\* one repository of list_catalogue(listing=False), which list prints
list(b, r, dire, rep_url, o, max) ==
    LET g   == is_git_repository_in(b, r, dire, o)
        sep == IF g.ok THEN "=" ELSE "!"
    IN  [g.b EXCEPT !.out =
            Append(@, Printed("message", r,
                              << PadRight(r, max) \o <<" ", sep, " ">> \o rep_url >>))]

\* os.path.dirname of a directory
RECURSIVE dirname(_)
dirname(d) ==
    IF d = <<>> THEN <<>>
    ELSE IF d[Len(d)] = "/" THEN (IF Len(d) = 1 THEN d ELSE SubSeq(d, 1, Len(d) - 1))
    ELSE dirname(SubSeq(d, 1, Len(d) - 1))

\* the loop of install for one repository: .installed tells whether it
\* sets installed_something.  (The four git commands for a directory
\* without .git run in the working directory of the process, which
\* install has not changed; what they do to that directory is not
\* modelled.)
install(b, r, dire, rep_url, o, dry_run, q) ==
    LET exists == dire \in b.dirs
        hasgit == dire \in RepoRoots \cup CloneRoots
        here   == rep_message(b, <<"git repository already exists">>, << <<>> >>,
                              TRUE, q)
        init   == run_all(b, << GitCall(r, "init", FALSE, o.init, "none"),
                                GitCall(r, "remote add", FALSE, o.remote, "none"),
                                GitCall(r, "fetch", FALSE, o.fetch, "none"),
                                GitCall(r, "checkout", FALSE, o.checkout, "none") >>)
        b1     == rep_message(b, r, << <<"installing">> >>, TRUE, q)
        b2     == chdir([b1 EXCEPT !.dirs = @ \cup {dirname(dire)}], dirname(dire))
        b3     == run(b2, GitCall(r, "clone", FALSE, o.clone, "none"))
        b4     == IF o.clone
                  THEN message([b3 EXCEPT !.dirs = @ \cup {dire}], r,
                               << <<" - done!">> >>, q)
                  ELSE b3
        first  == IF exists /\ hasgit THEN [b |-> here, installed |-> FALSE]
                  ELSE IF exists THEN [b |-> init, installed |-> TRUE]
                  ELSE IF dry_run THEN [b |-> b2, installed |-> FALSE]
                  ELSE [b |-> b4, installed |-> o.clone]
        g      == is_git_repository_in(first.b, r, dire, o)
    IN  IF dry_run THEN first
        ELSE IF g.ok THEN [b |-> g.b, installed |-> first.installed]
        ELSE [b |-> rep_message(g.b, r, << <<"is not a git repository!?">> >>,
                                FALSE, q),
              installed |-> first.installed]

\* ------------------------------------------------------------------------
\* One invocation of a batch command
\* ------------------------------------------------------------------------

\* the filters that the batch commands are explored with
SelectFilters ==
    {NoFilter, FilterOf(<<>>), FilterOf(<<"t">>), FilterOf(<<"^", "a">>)}

\* an answer that a command does not ask for is left at its first value,
\* so that every course of the loop is explored once
Asked(cmd, o) ==
    IF cmd \in {"branch", "diff", "fetch", "pull"}
    THEN o.wt \/ o.text = "none"
    ELSE IF cmd \in {"commit", "push"}
    THEN /\ (~o.wt) => o.diff = "fail"
         /\ (o.diff # "changes") => o.commit
         /\ (cmd = "commit" \/ o.diff = "fail" \/ ~o.commit) => o.ref = "fail"
         /\ (o.ref # "ahead") => o.push
    ELSE IF cmd = "status"
    THEN /\ (~o.wt) => (o.local /\ o.remote)
         /\ o.local => o.remote
         /\ (~o.remote) => o.status
         /\ (~o.wt \/ ~o.remote) => o.status
         /\ (~o.wt \/ ~o.remote \/ ~o.status) =>
                (o.diff /\ o.marker = <<>> /\ o.tree = "clean")
    ELSE IF cmd = "remote-set-ssh"
    THEN /\ (~o.wt) => o.remotes = "ssh"
         /\ (o.remotes # "https@") => o.set1
         /\ o.set1 => o.set2
    ELSE IF cmd = "install"
    THEN (~o.wt) => (o.init /\ o.remote /\ o.fetch /\ o.checkout /\ o.clone)
    ELSE TRUE

\* what git can answer for one repository of the loop of a command
AnswersOf(cmd) ==
    IF cmd \in {"branch", "diff", "fetch", "pull"}
    THEN [wt : BOOLEAN, text : GitTexts]
    ELSE IF cmd \in {"commit", "push"} THEN Outcomes
    ELSE IF cmd = "status"
    THEN [wt : BOOLEAN, local : BOOLEAN, remote : BOOLEAN, status : BOOLEAN,
          diff : BOOLEAN, marker : Markers, tree : WorkTrees]
    ELSE IF cmd = "remote-set-ssh"
    THEN [wt : BOOLEAN, remotes : Remotes, set1 : BOOLEAN, set2 : BOOLEAN]
    ELSE IF cmd = "install"
    THEN [wt : BOOLEAN, init : BOOLEAN, remote : BOOLEAN, fetch : BOOLEAN,
          checkout : BOOLEAN, clone : BOOLEAN]
    ELSE [wt : BOOLEAN]

\* the answers that the loop of a command is explored with
OutcomesOf(cmd) == {o \in AnswersOf(cmd) : Asked(cmd, o)}

\* the body of the loop of command cmd for repository r
loop_body(cmd, b, r, dire, o) ==
    LET q == inv.quiet
        d == inv.dry_run
        n == [b |-> b, installed |-> FALSE]
    IN  IF cmd = "branch" THEN [n EXCEPT !.b = branch(b, r, dire, o, q)]
        ELSE IF cmd = "commit" THEN [n EXCEPT !.b = commit(b, r, dire, o, d)]
        ELSE IF cmd = "diff" THEN [n EXCEPT !.b = diff(b, r, dire, o, q)]
        ELSE IF cmd = "fetch" THEN [n EXCEPT !.b = fetch(b, r, dire, o, q)]
        ELSE IF cmd = "pull" THEN [n EXCEPT !.b = pull(b, r, dire, o, q)]
        ELSE IF cmd = "push" THEN [n EXCEPT !.b = push(b, r, dire, o, d, q)]
        ELSE IF cmd = "remote-set-ssh"
        THEN [n EXCEPT !.b = remote_set_ssh(b, r, dire, o, q)]
        ELSE IF cmd = "status" THEN [n EXCEPT !.b = status(b, r, dire, o, q)]
        ELSE IF cmd = "install"
        THEN install(b, r, dire, ValueOf(catalogue, r), o, d, q)
        ELSE [n EXCEPT !.b = list(b, r, dire, ValueOf(catalogue, r), o,
                                  max_key(catalogue, inv.filter))]

\* a loop that a failed git command ends
loop_rest_stop(rest, b) ==
    IF \E k \in 1..Len(b.log) : ~b.log[k].ok THEN <<>> ELSE rest

\* the repositories that the for loop goes on with after a round: the
\* rest of them, whatever git has answered
loop_rest(rest, b) == rest

\* a command that writes the catalogue when its loop has ended
batch_file_saved(cmd, file, cat, filter) ==
    save_catalogue(cat, filter, max_key(cat, filter))

\* the catalogue file when the loop of a batch command has ended: none of
\* these commands calls save_catalogue
batch_file(cmd, file, cat, filter) == file

\* the start of an invocation: the module is loaded (Settings.__init__),
\* GitCat.__init__ reads the catalogue, and the command tests the connection
\* (list does not) and enters its loop
BatchStart ==
    \E optprefix \in Prefixes :
        LET r == read_catalogue(rcfile, optprefix)
        IN  \E cmd \in BatchCommands, filter \in SelectFilters,
               dry_run \in BOOLEAN, quiet \in BOOLEAN, connected \in BOOLEAN,
               isdir \in BOOLEAN, isfile \in BOOLEAN :
                LET st   == Settings_init(isdir, isfile)
                    i    == [Invocation(cmd) EXCEPT !.filter = filter,
                                !.dry_run = dry_run, !.quiet = quiet,
                                !.connected = connected]
                    il   == [i EXCEPT !.loaded = loaded(r)]
                    runs == cmd = "list" \/ connected
                IN  /\ pc = "idle"
                    /\ dry_run => cmd \in {"commit", "install", "push"}
                    /\ quiet => cmd \in {"pull", "status"}
                    /\ settings' = st
                    /\ UNCHANGED <<rcfile, dirs, gitlog, processed, getcwd, out, procs>>
                    /\ IF st.err # "none"
                       THEN /\ inv' = [i EXCEPT !.exit = 1, !.err = st.err]
                            /\ pc' = "done"
                            /\ UNCHANGED <<catalogue, prefix, todo>>
                       ELSE IF r.err # "none"
                       THEN /\ inv' = [il EXCEPT !.exit = 1, !.err = r.err]
                            /\ pc' = "done"
                            /\ catalogue' = r.catalogue
                            /\ prefix' = r.prefix
                            /\ todo' = <<>>
                       ELSE /\ inv' = il
                            /\ pc' = IF runs THEN "loop" ELSE "done"
                            /\ catalogue' = r.catalogue
                            /\ prefix' = r.prefix
                            /\ todo' = IF runs THEN repositories(r.catalogue, filter)
                                       ELSE <<>>

\* the answers that tell the courses of the loop apart by which git
\* commands fail: what status finds in the work tree is left out
FailuresOf(cmd) ==
    {o \in OutcomesOf(cmd) :
        cmd = "status" => (o.marker = <<>> /\ o.tree = "clean")}

\* one round of the loop, for the answers of git in the set answers.
\* (In a directory that is in no work tree 'git rev-parse' does not
\* succeed, and in a directory that does not exist git is not run.)
Round(answers) ==
    /\ pc = "loop"
    /\ todo # <<>>
    /\ \E o \in answers :
        LET r    == Head(todo)
            dire == expand_path(prefix, r)
            n    == loop_body(inv.cmd, BodyStart, r, dire, o)
        IN  /\ (inv.cmd # "install" /\ ~is_git_repository(dirs, dire)) => ~o.wt
            /\ todo' = loop_rest(Tail(todo), n.b)
            /\ processed' = Append(processed, r)
            /\ gitlog' = n.b.log
            /\ out' = n.b.out
            /\ getcwd' = n.b.cwd
            /\ dirs' = n.b.dirs
            /\ inv' = [inv EXCEPT !.installed = @ \/ n.installed]
            /\ UNCHANGED <<rcfile, catalogue, prefix, pc, settings, procs>>

\* one round of the loop
BatchRep == Round(OutcomesOf(inv.cmd))

\* one round of the loop in which only the failures of git vary
FailRep == Round(FailuresOf(inv.cmd))

\* the loop has run through its repositories: install ends with an error
\* when it has installed nothing
BatchEnd ==
    /\ pc = "loop"
    /\ todo = <<>>
    /\ pc' = "done"
    /\ rcfile' = batch_file(inv.cmd, rcfile, catalogue, inv.filter)
    /\ inv' = IF inv.cmd = "install" /\ ~inv.installed
              THEN [inv EXCEPT !.exit = 1,
                               !.err = "No matching repositories found to install"]
              ELSE inv
    /\ UNCHANGED <<dirs, catalogue, prefix, todo, processed, gitlog, getcwd, out,
                   settings, procs>>

\* catalogue files written by hand: a directory that is a key twice, once
\* more with other padding, a line with two ' = ' in front of the two keys,
\* and a key that is also the name of a line above 'Catalogue:'
HandFiles ==
    LET a == <<"a">> \o Sep \o <<"u">>
        w == <<"b">> \o Sep \o <<"w">>
    IN  { << <<"Catalogue:">>, a, a >>,
          << <<"#">>, <<"Catalogue:">>, a, w, <<"a", " ">> \o Sep \o <<"v">> >>,
          << <<"Catalogue:">>, w \o Sep \o <<"x">>, a, a >>,
          << a, <<"Catalogue:">>, a, w >> }

InitBatch ==
    /\ rcfile \in {save_catalogue(cat, NoFilter, max_key(cat, NoFilter)) :
                      cat \in PushCatalogues} \cup HandFiles
    /\ dirs = PushDirs
    /\ catalogue = <<>>
    /\ prefix = HOME
    /\ inv = [Invocation("none") EXCEPT !.pre_file = <<>>]
    /\ pc = "idle"
    /\ todo = <<>>
    /\ processed = <<>>
    /\ gitlog = <<>>
    /\ BatchIdle

NextBatch == BatchStart \/ BatchRep \/ BatchEnd

SpecBatch == InitBatch /\ [][NextBatch]_vars

NextFair == BatchStart \/ FailRep \/ BatchEnd

\* the loop is not held up for ever: every git subprocess returns
FairBatch ==
    InitBatch /\ [][NextFair]_vars /\ WF_vars(FailRep) /\ WF_vars(BatchEnd)

\* ------------------------------------------------------------------------
\* Properties of the batch commands
\* ------------------------------------------------------------------------

\* the repository that the loop has processed last, and its directory
LastRep == processed[Len(processed)]
LastDir == expand_path(prefix, LastRep)

\* the invocation has loaded its catalogue and run its command
Loaded ==
    /\ inv.cmd \in BatchCommands
    /\ inv.err \in {"none", "No matching repositories found to install"}

\* the entries of the loaded catalogue that the filter of the invocation
\* selects, in the order of the catalogue
Selected ==
    SelectSeq(Keys(inv.loaded),
              LAMBDA d : \/ ~inv.filter.has
                         \/ inv.filter.pat = <<>>
                         \/ Search(inv.filter.pat, d))

\* C11: branch, commit, diff, fetch, pull, push, remote-set-ssh and status
\* run no git command other than 'git rev-parse --is-inside-work-tree' for
\* a catalogue entry whose directory does not exist, is in no work tree,
\* or for which that check fails.
C11_InstalledOnly ==
    (/\ inv.cmd \in InstalledCommands
     /\ processed # <<>>
     /\ \/ LastDir \notin dirs
        \/ RootOf(LastDir) = <<>>
        \/ \E k \in 1..Len(gitlog) : gitlog[k].command = "rev-parse" /\ ~gitlog[k].ok)
    => /\ \A k \in 1..Len(gitlog) : gitlog[k].command = "rev-parse"
       /\ Len(gitlog) <= 1
       /\ LastDir \notin dirs => gitlog = <<>>

C11_Witness ==
    /\ inv.cmd = "pull"
    /\ Len(processed) = 2
    /\ LastDir = DirPlain
    /\ Len(gitlog) = 1
    /\ ~gitlog[1].ok

\* C12 as claimed: a batch command is applied to exactly the catalogue
\* entries that its filter selects, in catalogue order.
C12_Original ==
    (pc = "done" /\ Loaded) => processed = Selected

\* C12: a batch command whose connection test succeeds (list makes no such
\* test) is applied to exactly the catalogue entries whose name the filter
\* matches by regular-expression search, in catalogue order, and to every
\* entry when there is no filter or the filter is empty; a command whose
\* connection test fails is applied to no entry.
C12_Selection ==
    /\ (pc = "loop") => processed \o todo = Selected
    /\ (pc = "done" /\ Loaded /\ (inv.connected \/ inv.cmd = "list"))
          => processed = Selected
    /\ (pc = "done" /\ Loaded /\ ~inv.connected /\ inv.cmd # "list")
          => processed = <<>>

C12_Witness ==
    /\ pc = "done"
    /\ inv.cmd = "fetch"
    /\ inv.filter = FilterOf(<<"t">>)
    /\ Len(inv.loaded) = 2
    /\ inv.loaded[1].dire = DirPlain
    /\ processed = <<DirPlain>>

C14_DefaultLocation ==
    (inv.cmd # "none") =>
        /\ settings.err = "none"
        /\ settings.rc_file = IF settings.isdir THEN DotfilesRc ELSE HomeRc

\* the name in front of the first ' = ' of a line
KeyOf(line) == Strip(SubSeq(line, 1, FindSep(line) - 1))

\* a directory name is a key of two lines after the 'Catalogue:' line
HasDuplicate(lines) ==
    LET sec == CatalogueSection(lines)
    IN  \E x, y \in 1..Len(sec) :
            /\ x < y
            /\ HasSep(sec[x])
            /\ HasSep(sec[y])
            /\ KeyOf(sec[x]) = KeyOf(sec[y])

\* C15: an invocation on a catalogue file in which a directory name is a
\* key more than once after the 'Catalogue:' line ends with the error
\* 'appears in the catalogue more than once' and exit status 1 before its
\* command has run; a loaded catalogue never has two entries for one
\* directory.
C15_DuplicateRejected ==
    /\ (inv.cmd # "none" /\ settings.err = "none" /\ HasDuplicate(inv.pre_file)) =>
          /\ inv.err = "appears in the catalogue more than once"
          /\ inv.exit = 1
          /\ pc = "done"
          /\ processed = <<>>
          /\ gitlog = <<>>
    /\ \A x, y \in 1..Len(catalogue) :
          x # y => catalogue[x].dire # catalogue[y].dire

ErrorsPrinted ==
    \A k \in 1..Len(gitlog) :
        ~gitlog[k].ok =>
            \E j \in 1..Len(out) :
                /\ out[j].kind = "error"
                /\ out[j].rep = gitlog[k].rep
                /\ out[j].text = << <<gitlog[k].command>> >>

C19_StatusSummary ==
    (/\ inv.cmd = "status"
     /\ ~inv.quiet
     /\ \E k \in 1..Len(gitlog) : gitlog[k].command = "diff"
     /\ \A k \in 1..Len(gitlog) : gitlog[k].ok) =>
        LET st     == gitlog[CHOOSE k \in 1..Len(gitlog) :
                                gitlog[k].command = "status"].output
            df     == gitlog[CHOOSE k \in 1..Len(gitlog) :
                                gitlog[k].command = "diff"].output
            branch_line == st[1]
            lines  == Tail(st)
            marker == IF Len(branch_line) > 4
                      THEN SubSeq(branch_line, 7, Len(branch_line) - 1)
                      ELSE <<>>
            count  == IF df = <<>> THEN <<>> ELSE SubSeq(df[1], 2, 4)
            files  == <<"uncommitted changes in ">> \o count
            msg    == out[Len(out)].text
        IN  /\ (msg = << <<"up to date">> >>)
                   <=> (marker = <<>> /\ count = <<>> /\ lines = <<>>)
            /\ (msg # << <<"up to date">> >>) =>
                   /\ msg[1] \in {files, marker, files \o <<", ">> \o marker}
                   /\ msg[1] # <<>>
                   /\ count = <<>> => msg[1] = marker
                   /\ marker = <<>> => msg[1] = files
                   /\ Tail(msg) = lines

\* ------------------------------------------------------------------------
\* Two invocations that run at the same time
\* ------------------------------------------------------------------------

\* the processes, each running one 'git cat add' or 'git cat remove'
Procs == {1, 2}

\* the content of a file as one sequence: every line with its newline.
\* (The comment lines and the 'Catalogue:' line are single symbols here;
\* save_catalogue writes them at the head of every file, the same for every
\* invocation, so an offset counted in symbols past them names the same
\* byte in every content.)
RECURSIVE Flatten(_)
Flatten(lines) ==
    IF lines = <<>> THEN <<>>
    ELSE Head(lines) \o <<"\n">> \o Flatten(Tail(lines))

\* the lines of a content
RECURSIVE SplitLines(_)
SplitLines(s) ==
    LET nl == {i \in 1..Len(s) : s[i] = "\n"}
    IN  IF s = <<>> THEN <<>>
        ELSE IF nl = {} THEN <<s>>
        ELSE LET i == CHOOSE x \in nl : \A y \in nl : x <= y
             IN  <<SubSeq(s, 1, i - 1)>> \o SplitLines(SubSeq(s, i + 1, Len(s)))

\* the file after the buffered text of an invocation is written, when its
\* 'with' block closes the file: the file object was opened with mode 'w'
\* (not 'a'), so the text goes to offset 0 of the file as it is then, and
\* what the file holds beyond the end of the text stays
flush(lines, text) ==
    LET old == Flatten(lines)
        new == Flatten(text)
    IN  SplitLines(IF Len(old) > Len(new)
                   THEN new \o SubSeq(old, Len(new) + 1, Len(old))
                   ELSE new)

\* a process before it has started
RaceIdle == [pc |-> "start", cmd |-> "none", cwd |-> <<>>, text |-> <<>>, wrote |-> 0]

\* what add or remove, started in directory cwd with the catalogue r
\* loaded, hands to save_catalogue (err tells why it ends before that)
race_saves(cmd, r, cwd) ==
    LET g    == get_current_git_root(dirs, r.prefix, cwd, "ok")
        dire == short_path(r.prefix, g.root)
        new  == IF cmd = "add" THEN DictSet(r.catalogue, dire, RemoteOf(g.root))
                ELSE DictDel(r.catalogue, dire)
        err  == IF r.err # "none" THEN r.err
                ELSE IF g.err # "none" THEN g.err
                ELSE IF cmd = "add" /\ add_in_catalogue(r.catalogue, dire)
                THEN "already in the catalogue"
                ELSE IF cmd = "remove" /\ ~remove_in_catalogue(r.catalogue, dire)
                THEN "unknown repository"
                ELSE "none"
    IN  [err |-> err, cat |-> new,
         text |-> IF err # "none" THEN <<>>
                  ELSE save_catalogue(new, NoFilter, max_key(r.catalogue, NoFilter))]

\* GitCat.__init__ up to the call of save_catalogue: the process reads the
\* file as it is now and works out the catalogue that it will write
RaceLoad ==
    \E p \in Procs, cmd \in {"add", "remove"}, cwd \in dirs :
        LET s == race_saves(cmd, read_catalogue(rcfile, HOME), cwd)
        IN  /\ procs[p].pc = "start"
            /\ Len(s.cat) <= MaxCat
            /\ procs' = [procs EXCEPT ![p] =
                            [@ EXCEPT !.pc = IF s.err = "none" THEN "loaded" ELSE "failed",
                                      !.cmd = cmd, !.cwd = cwd, !.text = s.text]]
            /\ UNCHANGED <<rcfile, dirs, catalogue, prefix, inv, pc, todo, processed,
                           gitlog, getcwd, out, settings>>

\* open(self.gitcatrc, 'w'): the file is truncated
RaceOpen ==
    \E p \in Procs :
        /\ procs[p].pc = "loaded"
        /\ rcfile' = <<>>
        /\ procs' = [procs EXCEPT ![p].pc = "open"]
        /\ UNCHANGED <<dirs, catalogue, prefix, inv, pc, todo, processed, gitlog,
                       getcwd, out, settings>>

\* the end of the 'with' block: the four write() calls have filled the
\* buffer of the file object, and closing it writes the buffer out
RaceClose ==
    \E p \in Procs :
        /\ procs[p].pc = "open"
        /\ rcfile' = flush(rcfile, procs[p].text)
        /\ procs' = [procs EXCEPT
                        ![p].pc = "done",
                        ![p].wrote = 1 + MaxOf({procs[q].wrote : q \in Procs})]
        /\ UNCHANGED <<dirs, catalogue, prefix, inv, pc, todo, processed, gitlog,
                       getcwd, out, settings>>

InitRace ==
    /\ rcfile \in {save_catalogue(cat, NoFilter, max_key(cat, NoFilter)) :
                      cat \in PushCatalogues}
    /\ dirs = PushDirs
    /\ catalogue = <<>>
    /\ prefix = HOME
    /\ inv = [Invocation("none") EXCEPT !.pre_file = <<>>]
    /\ pc = "race"
    /\ todo = <<>>
    /\ processed = <<>>
    /\ gitlog = <<>>
    /\ getcwd = HOME
    /\ out = <<>>
    /\ settings = Settings_init(TRUE, FALSE)
    /\ procs = [p \in Procs |-> RaceIdle]

NextRace == RaceLoad \/ RaceOpen \/ RaceClose

SpecRace == InitRace /\ [][NextRace]_vars

\* C16: when two invocations have each loaded the catalogue and saved it,
\* with their steps interleaved in any way, the catalogue file holds
\* exactly the complete catalogue written by the invocation whose save
\* ended last: no mixture of the two writes and no truncated file.
C16_LastWriteWins ==
    \A p \in DOMAIN procs :
        (/\ \A q \in DOMAIN procs : procs[q].pc \in {"done", "failed"}
         /\ procs[p].pc = "done"
         /\ \A q \in DOMAIN procs : procs[q].wrote <= procs[p].wrote)
        => rcfile = procs[p].text

====
